---- MODULE Spec2Model ----
(***************************************************************************)
(* DirectoryScanner (main-pathOS-optimized.py): the parallel-partition /   *)
(* isolated-scan / ordered-merge pipeline of write_paths_to_file.          *)
(*                                                                         *)
(* Text is modelled as a sequence of one-character strings, so that a path *)
(* string, a line and a file's bytes are all sequences that can be joined, *)
(* sliced and compared.  A file is either NoFile (absent) or its bytes.    *)
(***************************************************************************)
EXTENDS Integers, Sequences, FiniteSets, TLC

\* ------------------------------------------------------------------ bounds
\* The largest number of entries iterdir() lists under the root.
MaxChildren == 2
\* The largest num_processes passed to scan().
MaxWorkers == 2

\* ------------------------------------------------------- program constants
\* chunk_size: the default I/O buffer size of DirectoryScanner.__init__.
chunk_size == 8192

\* --------------------------------------------------------------- the hosts
\* The content of a file that does not exist: no sequence of bytes.
NoFile == <<"no file">>
LF == "\n"
BS == "\\"

\* The hosts a run may be on: platform.system() and the resolved base_path.
Hosts ==
  { [platform |-> "Linux",   base_path |-> <<"/", "r">>],
    [platform |-> "Windows", base_path |-> <<"E", ":", BS>>] }

\* What rglob("*") finds under one directory: entries in traversal order, each
\* with its name and the answer os.access(entry, R_OK) gives for it.
EntryA == [name |-> "a", r_ok |-> TRUE]
EntryB == [name |-> "b", r_ok |-> TRUE]
EntryU == [name |-> "u", r_ok |-> FALSE]

\* The kinds of entry iterdir() may list under the root.  A directory carries
\* what rglob("*") yields for it and whether the enumeration then raises.
\* pathlib swallows the PermissionError of listing an unreadable directory, so
\* such a directory yields nothing and raises nothing.
ChildKinds ==
  { [is_dir |-> FALSE, r_ok |-> TRUE,  rglob |-> <<>>,              raises |-> FALSE],
    [is_dir |-> TRUE,  r_ok |-> FALSE, rglob |-> <<>>,              raises |-> FALSE],
    [is_dir |-> TRUE,  r_ok |-> TRUE,  rglob |-> <<>>,              raises |-> FALSE],
    [is_dir |-> TRUE,  r_ok |-> TRUE,  rglob |-> <<EntryA>>,        raises |-> FALSE],
    [is_dir |-> TRUE,  r_ok |-> TRUE,  rglob |-> <<EntryA, EntryB>>, raises |-> FALSE],
    [is_dir |-> TRUE,  r_ok |-> TRUE,  rglob |-> <<EntryA, EntryA>>, raises |-> FALSE],
    [is_dir |-> TRUE,  r_ok |-> TRUE,  rglob |-> <<EntryA, EntryU>>, raises |-> FALSE],
    [is_dir |-> TRUE,  r_ok |-> TRUE,  rglob |-> <<EntryA>>,        raises |-> TRUE] }

\* The bytes an output file may hold before the call.
OldOutput == <<"o", "l", "d", LF>>

VARIABLES
  platform,        \* platform.system()
  base_path,       \* self.base_path, resolved
  root_exists,     \* whether base_path exists
  children,        \* what base_path.iterdir() lists, in its order
  num_processes,   \* scan()'s num_processes; 0 stands for None
  pc,              \* where write_paths_to_file is
  error,           \* the exception travelling to the caller, or "none"
  subdirs,         \* scan()'s subdirs: indexes into children
  chunks,          \* scan()'s chunks
  temp_files,      \* the list _temp_file_manager yields
  future,          \* the state of each submitted task
  result_idx,      \* how many futures the result() loop has passed
  tempfs,          \* the files scan_<i> of the temp directory
  output,          \* the output file
  output_before,   \* the output file as it was before the call
  parent_dir,      \* whether the output file's parent directory exists
  temp_dir,        \* whether <tmp>/directory_scanner exists
  merged,          \* whether _merge_files has been entered
  unlink_tried,    \* the temp files cleanup has tried to delete
  late_writes,     \* the temp files a worker wrote after cleanup
  worker_error     \* the exception each task's future holds, or "none"

vars == << platform, base_path, root_exists, children, num_processes, pc, error,
           subdirs, chunks, temp_files, future, result_idx, tempfs, output,
           output_before, parent_dir, temp_dir, merged, unlink_tried, late_writes,
           worker_error >>

world == << platform, base_path, root_exists, children, output_before >>

\* ------------------------------------------------------------------- text
RECURSIVE Concat(_)
\* The sequences of ss joined in order.
Concat(ss) == IF ss = <<>> THEN <<>> ELSE Head(ss) \o Concat(Tail(ss))

Range(s) == { s[k] : k \in 1..Len(s) }

Min(a, b) == IF a < b THEN a ELSE b

startswith(s, prefix) ==
  /\ Len(s) >= Len(prefix)
  /\ SubSeq(s, 1, Len(prefix)) = prefix

RECURSIVE SplitLines(_, _)
\* The lines of data, each with its terminator; cur is the line being read.
SplitLines(data, cur) ==
  IF data = <<>> THEN (IF cur = <<>> THEN <<>> ELSE <<cur>>)
  ELSE IF Head(data) = LF
       THEN <<Append(cur, LF)>> \o SplitLines(Tail(data), <<>>)
       ELSE SplitLines(Tail(data), Append(cur, Head(data)))

Lines(data) == SplitLines(data, <<>>)

\* ------------------------------------------------------------------ paths
sep == IF platform = "Windows" THEN BS ELSE "/"

\* pathlib's  parent / name
joinpath(parent, name) ==
  IF parent # <<>> /\ parent[Len(parent)] = sep
  THEN Append(parent, name)
  ELSE parent \o <<sep, name>>

\* The name iterdir() gives the k-th entry of the root.
child_name(k) == ToString(k)

child_path(k) == joinpath(base_path, child_name(k))

entry_path(k, e) == joinpath(child_path(k), e.name)

\* os.access(path, os.R_OK): a boolean, never an exception for a real path.
os_access(r_ok) == r_ok

\* DirectoryScanner._is_accessible: os.access is called and its answer is
\* dropped; True is returned unless the call raises, and it does not.
_is_accessible(r_ok) == LET answer == os_access(r_ok) IN TRUE

\* The working directory of the process.
cwd == IF platform = "Windows" THEN <<"E", ":", BS, "w">> ELSE <<"/", "w">>

is_absolute(path) ==
  IF platform = "Windows"
  THEN \/ startswith(path, <<BS, BS>>)
       \/ Len(path) >= 3 /\ path[2] = ":" /\ path[3] = BS
  ELSE startswith(path, <<"/">>)

\* Path.absolute(): an absolute path as it is, another one below cwd.
absolute(path) == IF is_absolute(path) THEN path ELSE cwd \o <<sep>> \o path

\* DirectoryScanner._normalize_path.  Its except branch needs absolute() to
\* raise, which it does only for a relative path; scan() passes none.
_normalize_path(path) ==
  LET path_str == absolute(path) IN
  IF platform = "Windows"
  THEN IF startswith(path_str, <<BS, BS>>)
       THEN <<BS, BS, "?", BS, "U", "N", "C", BS>>
            \o SubSeq(path_str, 3, Len(path_str)) \o <<LF>>
       ELSE <<BS, BS, "?", BS>> \o path_str \o <<LF>>
  ELSE path_str \o <<LF>>

\* ------------------------------------------------------------ the scanner
not_seen_Never(normalized_path, seen) == TRUE

\* _scan_directory's test  normalized_path not in self._seen_paths
not_seen(normalized_path, seen) == normalized_path \notin seen

RECURSIVE scan_entries(_, _, _)
\* The loop of _scan_directory over the entries rglob yields for child k:
\* the lines yielded, in order, and the seen set afterwards.
scan_entries(k, entries, seen) ==
  IF entries = <<>> THEN [lines |-> <<>>, seen |-> seen]
  ELSE LET entry == Head(entries)
           normalized_path == _normalize_path(entry_path(k, entry))
           yields == _is_accessible(entry.r_ok) /\ not_seen(normalized_path, seen)
           rest == scan_entries(k, Tail(entries),
                                IF yields THEN seen \cup {normalized_path} ELSE seen)
       IN  [lines |-> (IF yields THEN <<normalized_path>> ELSE <<>>) \o rest.lines,
            seen |-> rest.seen]

\* DirectoryScanner._scan_directory on child k.  An exception of the
\* enumeration ends the sequence and is logged; what was yielded stays.
_scan_directory(k, seen) ==
  IF ~_is_accessible(children[k].r_ok)
  THEN [lines |-> <<>>, seen |-> seen]
  ELSE scan_entries(k, children[k].rglob, seen)

propagates_Reraised(raises) == raises

\* Whether an exception of the enumeration leaves _scan_directory: the
\* except clause of line 57 logs it and does not raise it again.
propagates(raises) == FALSE

RECURSIVE process_dirs(_, _)
\* The loop of _process_chunk over dirs: every line written, in order, up to
\* a directory whose scan lets an exception out.
process_dirs(dirs, seen) ==
  IF dirs = <<>> THEN <<>>
  ELSE LET one == _scan_directory(Head(dirs), seen)
       IN  one.lines \o (IF propagates(children[Head(dirs)].raises)
                         THEN <<>>
                         ELSE process_dirs(Tail(dirs), one.seen))

\* Whether a scan of the chunk lets an exception out of _process_chunk.
chunk_raises(dirs) == \E j \in 1..Len(dirs) : propagates(children[dirs[j]].raises)

\* DirectoryScanner._process_chunk: the lines it writes to its temp file.  The
\* task runs on a pickled copy of the scanner, whose _seen_paths is the empty
\* set of __init__: the parent process never adds to it.
_process_chunk(dirs) == process_dirs(dirs, {})

\* path.encode('utf-8') of each line, joined: the bytes of the lines.
encode(lines) == Concat(lines)

\* The children that are directories and pass _is_accessible, in iterdir order.
_get_subdirectories ==
  SelectSeq([k \in 1..Len(children) |-> k],
            LAMBDA k : children[k].is_dir /\ _is_accessible(children[k].r_ok))

RECURSIVE islice(_, _, _)
\* itertools.islice(s, start, None, step); start counts from 0.
islice(s, start, step) ==
  IF start >= Len(s) THEN <<>>
  ELSE <<s[start + 1]>> \o islice(s, start + step, step)

plan_StepOne(listing, n) == [i \in 1..n |-> islice(listing, i - 1, 1)]

plan_StartOffByOne(listing, n) == [i \in 1..n |-> islice(listing, i, n)]

\* scan()'s chunks for n processes.
plan(listing, n) == [i \in 1..n |-> islice(listing, i - 1, n)]

\* scan()'s  num_processes or os.cpu_count() or 1 ; 0 stands for None.
effective_processes(arg, cpu) ==
  IF arg # 0 THEN arg ELSE IF cpu # 0 THEN cpu ELSE 1

\* The name of partition i's temp file, scan_<i>, stands for the file.
temp_file(i) == i

\* -------------------------------------------------------------- the merge
RECURSIVE read_chunks(_, _)
\* iter(lambda: mm.read(chunk_size), b''): the chunks of mm from pos on, joined.
read_chunks(mm, pos) ==
  IF pos >= Len(mm) THEN <<>>
  ELSE SubSeq(mm, pos + 1, Min(pos + chunk_size, Len(mm)))
       \o read_chunks(mm, pos + chunk_size)

RECURSIVE merge_loop(_, _, _)
\* The loop of _merge_files: a missing file is skipped, mmap of an empty file
\* raises ValueError, any other file is copied chunk by chunk.  The output's
\* buffer is flushed when the with block is left, also by an exception.
merge_loop(files, fs, out) ==
  IF files = <<>> THEN [out |-> out, raised |-> FALSE]
  ELSE LET tf == Head(files) IN
       IF fs[tf] = NoFile THEN merge_loop(Tail(files), fs, out)
       ELSE IF fs[tf] = <<>> THEN [out |-> out, raised |-> TRUE]
       ELSE merge_loop(Tail(files), fs, out \o read_chunks(fs[tf], 0))

merge_files_Reversed(files, fs) ==
  merge_loop([j \in 1..Len(files) |-> files[Len(files) + 1 - j]], fs, <<>>)

\* DirectoryScanner._merge_files once the output file is open (and truncated).
_merge_files(files, fs) == merge_loop(files, fs, <<>>)

\* ------------------------------------------------------------ the cleanup
RECURSIVE cleanup_loop(_, _, _, _)
RECURSIVE cleanup_StopsAtError(_, _, _, _)
cleanup_StopsAtError(files, fs, fails, tried) ==
  IF files = <<>> THEN [fs |-> fs, tried |-> tried, raised |-> FALSE]
  ELSE LET tf == Head(files) IN
       IF fs[tf] = NoFile
       THEN cleanup_StopsAtError(Tail(files), fs, fails, tried)
       ELSE IF tf \in fails
       THEN [fs |-> fs, tried |-> tried \cup {tf}, raised |-> TRUE]
       ELSE cleanup_StopsAtError(Tail(files), [fs EXCEPT ![tf] = NoFile],
                                 fails, tried \cup {tf})

\* The finally block of _temp_file_manager: each file that exists is unlinked;
\* an unlink that raises (the files in fails) is logged and the loop goes on.
cleanup_loop(files, fs, fails, tried) ==
  IF files = <<>> THEN [fs |-> fs, tried |-> tried, raised |-> FALSE]
  ELSE LET tf == Head(files) IN
       IF fs[tf] = NoFile THEN cleanup_loop(Tail(files), fs, fails, tried)
       ELSE cleanup_loop(Tail(files),
                         IF tf \in fails THEN fs ELSE [fs EXCEPT ![tf] = NoFile],
                         fails, tried \cup {tf})

\* --------------------------------------------------------- the executor
Settled == {"done", "failed", "cancelled"}

\* ProcessPoolExecutor.shutdown's cancel_futures, which __exit__ leaves False:
\* a task still queued at shutdown is run, not cancelled.
cancel_futures == FALSE

all_settled_NoWait(fut, files) == TRUE

\* What the executor's __exit__, shutdown(wait=True), waits for: every
\* submitted task has completed, failed or been cancelled.
all_settled(fut, files) == \A tf \in Range(files) : fut[tf] \in Settled

after_executor_AlwaysMerge(err) == "merge"

\* Where scan() goes when the executor's with block is left: on to
\* _merge_files, or, with an exception travelling, to the finally block.
after_executor(err) == IF err = "none" THEN "merge" ELSE "cleanup"

\* ------------------------------------------------------------------ Init
TempNames == 0..(MaxWorkers - 1)

ChildListings == UNION { [1..n -> ChildKinds] : n \in 0..MaxChildren }

\* The state when write_paths_to_file is called, with the temp directory
\* holding the files temp0.
InitWith(temp0) ==
  /\ \E host \in Hosts : platform = host.platform /\ base_path = host.base_path
  /\ root_exists \in BOOLEAN
  /\ children \in ChildListings
  /\ ~root_exists => children = <<>>
  /\ num_processes \in 0..MaxWorkers
  /\ output_before \in {NoFile, OldOutput}
  /\ output = output_before
  /\ parent_dir = (output_before # NoFile)
  /\ pc = "init"
  /\ error = "none"
  /\ subdirs = <<>>
  /\ chunks = <<>>
  /\ temp_files = <<>>
  /\ future = [tf \in TempNames |-> "idle"]
  /\ result_idx = 0
  /\ tempfs = temp0
  /\ temp_dir = FALSE
  /\ merged = FALSE
  /\ unlink_tried = {}
  /\ late_writes = {}
  /\ worker_error = [tf \in TempNames |-> "none"]

\* A call that finds no scan_<i> in the temp directory.
Init == InitWith([tf \in TempNames |-> NoFile])

\* The bytes of a scan_<i> that an earlier call left behind.
StaleBytes == <<"s", "t", "a", "l", "e", LF>>

\* A call that finds every scan_<i> left behind by an earlier call, whose
\* deletions failed.
InitLeftover == InitWith([tf \in TempNames |-> StaleBytes])

\* --------------------------------------------------------------- actions
parent_after_init_MkdirFirst(exists, parent) == TRUE

\* Whether the output file's parent directory exists after __init__: the
\* mkdir(parents=True, exist_ok=True) comes after the check of base_path.
parent_after_init(exists, parent) == IF exists THEN TRUE ELSE parent

\* DirectoryScanner.__init__, called by write_paths_to_file.
Construct ==
  /\ pc = "init"
  /\ parent_dir' = parent_after_init(root_exists, parent_dir)
  /\ IF ~root_exists
     THEN /\ error' = "FileNotFoundError"
          /\ pc' = "raised"
     ELSE /\ pc' = "scan"
          /\ UNCHANGED error
  /\ UNCHANGED << world, num_processes, subdirs, chunks, temp_files, future,
                  result_idx, tempfs, output, temp_dir, merged, unlink_tried,
                  late_writes, worker_error >>

no_subdirs_Never(listing) == FALSE

\* scan()'s test  if not subdirs
no_subdirs(listing) == listing = <<>>

\* scan() up to the entry of the executor's with block: the worker count, the
\* listing, the early return, the chunks, and _temp_file_manager's setup.
ScanStart ==
  /\ pc = "scan"
  /\ \E cpu \in {0, MaxWorkers} :
       LET n == effective_processes(num_processes, cpu)
           listing == _get_subdirectories
       IN  /\ num_processes' = n
           /\ subdirs' = listing
           /\ IF no_subdirs(listing)
              THEN /\ pc' = "returned"
                   /\ UNCHANGED << chunks, temp_dir >>
              ELSE /\ chunks' = plan(listing, n)
                   /\ temp_dir' = TRUE
                   /\ pc' = "dispatch"
  /\ UNCHANGED << world, error, temp_files, future, result_idx, tempfs, output,
                  parent_dir, merged, unlink_tried, late_writes, worker_error >>

\* One turn of the submit loop.
Submit ==
  /\ pc = "dispatch"
  /\ LET i == Len(temp_files) IN
       /\ temp_files' = Append(temp_files, temp_file(i))
       /\ future' = [future EXCEPT ![temp_file(i)] = "queued"]
       /\ pc' = IF i + 1 = Len(chunks) THEN "results" ELSE "dispatch"
  /\ UNCHANGED << world, num_processes, error, subdirs, chunks, result_idx,
                  tempfs, output, parent_dir, temp_dir, merged, unlink_tried,
                  late_writes, worker_error >>

Terminated == pc \in {"returned", "raised"}

chunk_of_Next(i) == chunks[((i + 1) % Len(chunks)) + 1]

\* The chunk submitted with temp file scan_<i>: enumerate(chunks) pairs them.
chunk_of(i) == chunks[i + 1]

open_wb_Appends(old) == IF old = NoFile THEN <<>> ELSE old

\* open(temp_file, 'wb'): the file is created, or truncated if it exists.
open_wb(old) == <<>>

\* f.write on the open temp file: the bytes follow what the file holds.  A
\* file unlinked since it was opened takes the bytes without reappearing.
write(old, bytes) == IF old = NoFile THEN NoFile ELSE old \o bytes

\* A worker process takes task i and opens its temp file for writing, which
\* creates or truncates it; the open may fail.
WorkerStart(i) ==
  /\ future[temp_file(i)] = "queued"
  /\ \E open_ok \in BOOLEAN :
       IF open_ok
       THEN /\ tempfs' = [tempfs EXCEPT ![temp_file(i)] = open_wb(tempfs[temp_file(i)])]
            /\ future' = [future EXCEPT ![temp_file(i)] = "running"]
            /\ late_writes' = IF Terminated THEN late_writes \cup {temp_file(i)}
                              ELSE late_writes
            /\ UNCHANGED worker_error
       ELSE /\ future' = [future EXCEPT ![temp_file(i)] = "failed"]
            /\ worker_error' = [worker_error EXCEPT ![temp_file(i)] = "OSError"]
            /\ UNCHANGED << tempfs, late_writes >>
  /\ UNCHANGED << world, num_processes, pc, error, subdirs, chunks, temp_files,
                  result_idx, output, parent_dir, temp_dir, merged, unlink_tried >>

\* The rest of _process_chunk for task i: every directory of the chunk is
\* scanned and its lines written; a write may fail, after written of them.
WorkerFinish(i) ==
  /\ future[temp_file(i)] = "running"
  /\ LET lines == _process_chunk(chunk_of(i))
         escaped == chunk_raises(chunk_of(i))
     IN
     \E written \in 0..Len(lines) :
       /\ tempfs' = [tempfs EXCEPT ![temp_file(i)] =
                       write(tempfs[temp_file(i)], encode(SubSeq(lines, 1, written)))]
       /\ future' = [future EXCEPT ![temp_file(i)] =
                       IF written = Len(lines) /\ ~escaped THEN "done" ELSE "failed"]
       /\ worker_error' = [worker_error EXCEPT ![temp_file(i)] =
                             IF written < Len(lines) THEN "OSError"
                             ELSE IF escaped THEN "ScanError" ELSE "none"]
  /\ late_writes' = IF Terminated THEN late_writes \cup {temp_file(i)} ELSE late_writes
  /\ UNCHANGED << world, num_processes, pc, error, subdirs, chunks, temp_files,
                  result_idx, output, parent_dir, temp_dir, merged, unlink_tried >>

result_returns_Unfinished(status) == status \in {"queued", "running", "done"}

\* future.result() returns, after blocking until then, once the task has
\* completed without an exception.
result_returns(status) == status = "done"

\* One turn of the loop  for future in futures: future.result()
Result ==
  /\ pc = "results"
  /\ LET tf == temp_files[result_idx + 1] IN
       \/ /\ result_returns(future[tf])
          /\ result_idx' = result_idx + 1
          /\ pc' = IF result_idx + 1 = Len(temp_files) THEN "shutdown" ELSE "results"
          /\ UNCHANGED error
       \/ /\ future[tf] = "failed"
          /\ error' = "WorkerError"
          /\ pc' = "shutdown"
          /\ UNCHANGED result_idx
  /\ UNCHANGED << world, num_processes, subdirs, chunks, temp_files, future,
                  tempfs, output, parent_dir, temp_dir, merged, unlink_tried,
                  late_writes, worker_error >>

\* The executor's __exit__: queued tasks are cancelled only with
\* cancel_futures, then every task is waited for.
ExecutorShutdown ==
  /\ pc = "shutdown"
  /\ LET fut == [tf \in TempNames |->
                   IF cancel_futures /\ future[tf] = "queued"
                   THEN "cancelled" ELSE future[tf]]
     IN  /\ all_settled(fut, temp_files)
         /\ future' = fut
  /\ pc' = after_executor(error)
  /\ UNCHANGED << world, num_processes, error, subdirs, chunks, temp_files,
                  result_idx, tempfs, output, parent_dir, temp_dir, merged,
                  unlink_tried, late_writes, worker_error >>

\* self._merge_files(temp_files): the output file is opened for writing (which
\* may fail and leaves it as it was), then the temp files are copied into it.
Merge ==
  /\ pc = "merge"
  /\ merged' = TRUE
  /\ \E open_ok \in BOOLEAN :
       IF open_ok
       THEN LET m == _merge_files(temp_files, tempfs) IN
            /\ output' = m.out
            /\ error' = IF m.raised THEN "ValueError" ELSE "none"
       ELSE /\ error' = "OSError"
            /\ UNCHANGED output
  /\ pc' = "cleanup"
  /\ UNCHANGED << world, num_processes, subdirs, chunks, temp_files, future,
                  result_idx, tempfs, parent_dir, temp_dir, unlink_tried,
                  late_writes, worker_error >>

\* The finally block of _temp_file_manager, then scan() returns or the
\* exception goes on to the caller.
Cleanup ==
  /\ pc = "cleanup"
  /\ \E fails \in SUBSET { tf \in Range(temp_files) : tempfs[tf] # NoFile } :
       LET c == cleanup_loop(temp_files, tempfs, fails, {}) IN
         /\ tempfs' = c.fs
         /\ unlink_tried' = c.tried
         /\ error' = IF c.raised THEN "CleanupError" ELSE error
         /\ pc' = IF c.raised \/ error # "none" THEN "raised" ELSE "returned"
  /\ UNCHANGED << world, num_processes, subdirs, chunks, temp_files, future,
                  result_idx, output, parent_dir, temp_dir, merged, late_writes, worker_error >>

Next ==
  \/ Construct
  \/ ScanStart
  \/ Submit
  \/ \E i \in TempNames : WorkerStart(i)
  \/ \E i \in TempNames : WorkerFinish(i)
  \/ Result
  \/ ExecutorShutdown
  \/ Merge
  \/ Cleanup

Spec == Init /\ [][Next]_vars

\* A call over the temp files an earlier call left behind.
SpecLeftover == InitLeftover /\ [][Next]_vars

\* The bytes a worker of another scan() call, on another root, writes.
OtherBytes == <<"/", "q", "/", "1", "/", "a", LF>>

\* A worker of another scan() call running on the same host: its
\* _process_chunk opens its scan_<j>, the same path, and writes its lines.
OtherCallWorker(j) ==
  /\ pc \notin {"init", "returned", "raised"}
  /\ tempfs' = [tempfs EXCEPT ![temp_file(j)] = write(open_wb(tempfs[temp_file(j)]), OtherBytes)]
  /\ UNCHANGED << world, num_processes, pc, error, subdirs, chunks, temp_files,
                  future, result_idx, output, parent_dir, temp_dir, merged,
                  unlink_tried, late_writes, worker_error >>

\* The finally block of the other call's _temp_file_manager: it unlinks its
\* scan_<j>, the same path, if that exists.
OtherCallCleanup(j) ==
  /\ pc \notin {"init", "returned", "raised"}
  /\ tempfs[temp_file(j)] # NoFile
  /\ tempfs' = [tempfs EXCEPT ![temp_file(j)] = NoFile]
  /\ UNCHANGED << world, num_processes, pc, error, subdirs, chunks, temp_files,
                  future, result_idx, output, parent_dir, temp_dir, merged,
                  unlink_tried, late_writes, worker_error >>

NextConcurrent ==
  \/ Next
  \/ \E j \in TempNames : OtherCallWorker(j)
  \/ \E j \in TempNames : OtherCallCleanup(j)

\* A call running while another scan() call runs on the same host.
SpecConcurrent == Init /\ [][NextConcurrent]_vars

\* ================================================================ claims
Submitted == Range(temp_files)

\* The temp files of the list that exist, in the list's order.
ExistingTempFiles == SelectSeq(temp_files, LAMBDA tf : tempfs[tf] # NoFile)

\* _merge_files has run with the output file open.
MergeWrote == merged /\ error # "OSError"

\* The children of the root that are directories.
Directories == { k \in 1..Len(children) : children[k].is_dir }

\* Every entry of the tree answers True to os.access(R_OK).
AllReadable ==
  \A k \in 1..Len(children) :
    children[k].r_ok /\ \A e \in Range(children[k].rglob) : e.r_ok

\* No enumeration raises, no worker fails, the output file opens.
NoErrorOccurs ==
  /\ \A k \in 1..Len(children) : ~children[k].raises
  /\ \A tf \in Submitted : future[tf] # "failed"
  /\ error # "OSError"

\* The normalized paths of all descendants of the root's subdirectories.
DescendantLines ==
  UNION { { _normalize_path(entry_path(k, e)) : e \in Range(children[k].rglob) } :
          k \in Directories }

\* The normalized paths of the entries os.access reports as not readable.
UnreadableLines ==
  UNION { { _normalize_path(entry_path(k, children[k].rglob[t])) :
              t \in { u \in 1..Len(children[k].rglob) : ~children[k].rglob[u].r_ok } } :
          k \in Directories }

LineSet(data) == Range(Lines(data))

\* C1: whatever mix of missing, empty and non-empty temp files _merge_files is
\* given, it completes, and the output file's bytes are the bytes of the temp
\* files that exist, joined in the order of the list.
C1_MergeConcatenates ==
  (pc = "cleanup" /\ MergeWrote) =>
    /\ error = "none"
    /\ output = Concat([n \in 1..Len(ExistingTempFiles) |-> tempfs[ExistingTempFiles[n]]])

\* C2: on a tree whose entries are all readable, with no error and any
\* worker count, scan() completes and the lines of the output file are exactly
\* the normalized paths of the descendants of the root's subdirectories.
C2_OutputIsComplete ==
  (Terminated /\ root_exists /\ subdirs # <<>> /\ AllReadable /\ NoErrorOccurs) =>
    /\ pc = "returned"
    /\ output # NoFile
    /\ LineSet(output) = DescendantLines

\* C3: when scan() has returned or raised after dispatch, a deletion has been
\* tried for every temp file of the call that existed; a deletion that failed
\* stopped no other deletion and did not change the outcome: the call raises
\* exactly when a worker or the merge raised, and with that error.
C3_CleanupOnEveryExit ==
  (Terminated /\ temp_files # <<>>) =>
    /\ \A tf \in Submitted : tempfs[tf] # NoFile => tf \in unlink_tried
    /\ \A tf \in Submitted : future[tf] = "done" => tf \in unlink_tried
    /\ error \in {"none", "WorkerError", "ValueError", "OSError"}
    /\ (pc = "returned") = (error = "none")
    /\ (error = "WorkerError") = (\E tf \in Submitted : future[tf] = "failed")

\* C3's case: the call raised for a worker, the deletion of scan_0 failed, and
\* scan_1 was deleted all the same.
C3_Witness ==
  /\ pc = "raised" /\ error = "WorkerError"
  /\ unlink_tried = {0, 1}
  /\ tempfs[0] # NoFile
  /\ tempfs[1] = NoFile

\* C4: once a worker task has failed, _merge_files is never entered and the
\* output file stays what it was before the call.
C4_WorkerFailureLeavesOutput ==
  (\E tf \in Submitted : future[tf] = "failed") =>
    /\ ~merged
    /\ output = output_before

\* C4's case: a call that raised for a failed worker, over an output file of
\* an earlier run, while another worker completed.
C4_Witness ==
  /\ pc = "raised"
  /\ \E tf \in Submitted : future[tf] = "failed"
  /\ \E tf \in Submitted : future[tf] = "done"
  /\ output_before = OldOutput
  /\ output = OldOutput

\* C5: the executor's with block is left, and so the merge, the cleanup and
\* the end of scan() are reached, only when every submitted task has completed
\* or failed (none is cancelled); no worker writes a temp file after cleanup.
C5_ErrorAfterAllSettled ==
  /\ (pc \in {"merge", "cleanup", "returned", "raised"} /\ temp_files # <<>>) =>
       \A tf \in Submitted : future[tf] \in {"done", "failed"}
  /\ late_writes = {}

\* C5's case: the failure of task 0 was raised to the caller after task 1,
\* dispatched with it, had run to completion.
C5_Witness ==
  /\ pc = "raised" /\ error = "WorkerError"
  /\ Len(temp_files) = 2
  /\ future[0] = "failed"
  /\ future[1] = "done"

\* C6: a scan in which no worker raises completes even when a partition
\* produces zero bytes, and the output holds exactly the records of the
\* partitions, the empty one adding nothing.
C6_EmptyPartitionSucceeds ==
  ( /\ Terminated /\ subdirs # <<>> /\ error # "OSError"
    /\ \A tf \in Submitted : future[tf] = "done"
    /\ \E i \in 1..Len(chunks) : _process_chunk(chunks[i]) = <<>> ) =>
    /\ pc = "returned"
    /\ output = Concat([i \in 1..Len(chunks) |-> encode(_process_chunk(chunks[i]))])

\* C7: no two lines of one worker's temp file, the segment it adds to the
\* output, are the same text.
C7_NoDuplicateLines ==
  \A tf \in TempNames :
    tempfs[tf] # NoFile =>
      Cardinality(LineSet(tempfs[tf])) = Len(Lines(tempfs[tf]))

\* C7's case: a worker has completed a partition with a directory in which
\* the same path is reached twice, and has written lines.
C7_Witness ==
  \E i \in 1..Len(chunks) :
    /\ future[temp_file(i - 1)] = "done"
    /\ tempfs[temp_file(i - 1)] \notin {NoFile, <<>>}
    /\ \E k \in Range(chunks[i]) : children[k].rglob = <<EntryA, EntryA>>

\* C8: no line of the output file is the path of an entry that os.access
\* reported as not readable.
C8_OnlyReadableEntries ==
  output # NoFile => LineSet(output) \cap UnreadableLines = {}

Origins(line) ==
  { o \in UNION { UNION { { <<i, j, t>> :
                              t \in 1..Len(children[chunks[i][j]].rglob) } :
                          j \in 1..Len(chunks[i]) } :
                  i \in 1..Len(chunks) } :
      _normalize_path(entry_path(chunks[o[1]][o[2]],
                                 children[chunks[o[1]][o[2]]].rglob[o[3]])) = line }

Before(a, b) ==
  \/ a[1] < b[1]
  \/ a[1] = b[1] /\ a[2] < b[2]
  \/ a[1] = b[1] /\ a[2] = b[2] /\ a[3] < b[3]

\* The first place a line comes from: partition, then directory, then entry.
FirstOrigin(line) ==
  CHOOSE o \in Origins(line) : \A other \in Origins(line) : other = o \/ Before(o, other)

\* C10: the lines of the output file are in the order of their partitions,
\* then of their directories in the partition, then of the traversal of the
\* directory; so each partition's lines are one block and the blocks ascend.
C10_OutputOrder ==
  MergeWrote =>
    LET out == Lines(output) IN
      /\ \A p \in 1..Len(out) : Origins(out[p]) # {}
      /\ \A p, q \in 1..Len(out) :
           p < q => Before(FirstOrigin(out[p]), FirstOrigin(out[q]))

\* C10's case: a merged output of two partitions, one of them with two lines.
C10_Witness ==
  /\ MergeWrote /\ error = "none"
  /\ Len(chunks) = 2
  /\ Len(Lines(output)) = 3
  /\ \E p \in 1..3 : FirstOrigin(Lines(output)[p])[1] = 2

\* The root's immediate subdirectories that pass the scanner's access probe.
AccessibleSubdirectories == { k \in Directories : _is_accessible(children[k].r_ok) }

\* No task has been submitted and no temp file exists.
NothingDispatched ==
  /\ temp_files = <<>>
  /\ \A tf \in TempNames : future[tf] = "idle" /\ tempfs[tf] = NoFile

C12_MissingRootFailsFirst ==
  (~root_exists /\ pc # "init") =>
    /\ pc = "raised"
    /\ error = "FileNotFoundError"
    /\ subdirs = <<>> /\ chunks = <<>>
    /\ NothingDispatched
    /\ ~temp_dir
    /\ ~merged
    /\ output = output_before
    /\ parent_dir = (output_before # NoFile)

\* C12's case: the call has raised for a missing root, and the parent
\* directory of the output file, missing before the call, is still missing.
C12_Witness ==
  /\ ~root_exists
  /\ pc = "raised"
  /\ error = "FileNotFoundError"
  /\ output_before = NoFile
  /\ ~parent_dir

\* A line without its terminator.
strip_terminator(line) ==
  IF line # <<>> /\ line[Len(line)] = LF THEN SubSeq(line, 1, Len(line) - 1) ELSE line

\* Path(text): the text with a separator at its end dropped, unless that
\* separator is the root's.  An extended-length text \\?\E:\... stays as it is.
parse_path(text) ==
  IF Len(text) > 1 /\ text[Len(text)] = sep /\ text[Len(text) - 1] \notin {sep, ":"}
  THEN SubSeq(text, 1, Len(text) - 1)
  ELSE text

\* C13: normalizing again a line a worker has written (the line without its
\* terminator, read back as a path) gives the same line, on either platform.
C13_NormalizeIdempotent ==
  \A tf \in TempNames :
    tempfs[tf] # NoFile =>
      \A line \in LineSet(tempfs[tf]) :
        _normalize_path(parse_path(strip_terminator(line))) = line

\* C14: _merge_files is entered only when a task has been submitted for every
\* partition and every one of them has completed successfully: none is
\* queued, running or failed when the merge starts or after it.
C14_MergeAfterAllWorkers ==
  (pc = "merge" \/ merged) =>
    /\ Len(temp_files) = Len(chunks)
    /\ \A tf \in Submitted : future[tf] = "done"

\* C14's case: the merge has run over the files of two completed workers.
C14_Witness ==
  /\ merged
  /\ pc = "cleanup"
  /\ Len(temp_files) = 2
  /\ future[0] = "done" /\ future[1] = "done"

\* C15: once planned, no subdirectory is in two partitions or twice in one,
\* the partitions together hold exactly the listed subdirectories, and no
\* partition has over one subdirectory more than another.
C15_PartitionsDisjointBalanced ==
  (pc \notin {"init", "scan"} /\ subdirs # <<>>) =>
    LET parts == 1..Len(chunks) IN
      /\ \A i, j \in parts : i # j => Range(chunks[i]) \cap Range(chunks[j]) = {}
      /\ \A i \in parts : Cardinality(Range(chunks[i])) = Len(chunks[i])
      /\ UNION { Range(chunks[i]) : i \in parts } = Range(subdirs)
      /\ Range(subdirs) = AccessibleSubdirectories
      /\ \A i, j \in parts : Len(chunks[i]) - Len(chunks[j]) <= 1

\* C15's case: two listed subdirectories planned for two workers.
C15_Witness ==
  /\ pc = "dispatch"
  /\ Len(subdirs) = 2
  /\ Len(chunks) = 2
  /\ Len(chunks[1]) = 1 /\ Len(chunks[2]) = 1

\* The normalized paths of what rglob yields under the directories of dirs.
YieldedLines(dirs) ==
  UNION { { _normalize_path(entry_path(k, e)) : e \in Range(children[k].rglob) } :
          k \in Range(dirs) }

\* C16: an exception of one directory's enumeration never becomes the
\* failure of a task, and the temp file of a completed task holds the lines
\* of every directory of its partition: those yielded before the exception
\* and those of the directories after it.
C16_TraversalErrorIsLocal ==
  /\ \A tf \in TempNames : worker_error[tf] # "ScanError"
  /\ \A i \in 1..Len(chunks) :
       (future[temp_file(i - 1)] = "done" /\ tempfs[temp_file(i - 1)] # NoFile) =>
         LineSet(tempfs[temp_file(i - 1)]) = YieldedLines(chunks[i])

\* C16's case: a task has completed a partition whose first directory's
\* enumeration raised after one entry and whose second directory has entries,
\* and its temp file holds lines of both.
C16_Witness ==
  \E i \in 1..Len(chunks) :
    /\ Len(chunks[i]) = 2
    /\ children[chunks[i][1]].raises
    /\ children[chunks[i][2]].rglob # <<>>
    /\ future[temp_file(i - 1)] = "done"
    /\ tempfs[temp_file(i - 1)] # NoFile
    /\ Len(Lines(tempfs[temp_file(i - 1)])) >= 2

\* C17: the temp files of a call are scan_0, scan_1, ... in partition order,
\* each listed once; a temp file exists only once its own task has opened it;
\* and what a completed task has written is the lines of its own partition,
\* deduplicated against nothing but themselves, whatever the other tasks did.
C17_WorkersAreIsolated ==
  /\ \A n \in 1..Len(temp_files) : temp_files[n] = n - 1
  /\ \A tf \in TempNames :
       tempfs[tf] # NoFile =>
         tf \in Submitted /\ future[tf] \in {"running", "done", "failed"}
  /\ \A n \in 1..Len(temp_files) :
       (future[n - 1] = "done" /\ tempfs[n - 1] # NoFile) =>
         tempfs[n - 1] = encode(process_dirs(chunks[n], {}))

\* C17's case: two tasks have completed, each with lines in its own file.
C17_Witness ==
  /\ pc \in {"results", "shutdown"}
  /\ Len(temp_files) = 2
  /\ future[0] = "done" /\ future[1] = "done"
  /\ tempfs[0] \notin {NoFile, <<>>}
  /\ tempfs[1] \notin {NoFile, <<>>}
  /\ tempfs[0] # tempfs[1]

\* The bytes the workers of this call write, joined in partition order.
OwnBytes == Concat([i \in 1..Len(chunks) |-> encode(process_dirs(chunks[i], {}))])

\* C18: while another scan() call runs on the same host, the temp file of
\* each completed task of this call still holds what that task wrote when the
\* merge comes, and the output of this call, once returned, is what it
\* produces when run alone.
C18_ConcurrentCallsDoNotInterfere ==
  /\ \A n \in 1..Len(temp_files) :
       (pc \in {"shutdown", "merge"} /\ future[n - 1] = "done") =>
         tempfs[n - 1] = encode(process_dirs(chunks[n], {}))
  /\ (pc = "returned" /\ merged) => output = OwnBytes

\* C19: over temp files left behind by an earlier call, every listed temp
\* file has been created anew by its task when the merge starts, no line of
\* the left-over bytes is in the output, and the output of a successful scan
\* is the bytes this call's workers wrote.
C19_NoLeftoverBytes ==
  /\ pc = "merge" =>
       \A n \in 1..Len(temp_files) : tempfs[n - 1] = encode(process_dirs(chunks[n], {}))
  /\ MergeWrote => LineSet(output) \cap LineSet(StaleBytes) = {}
  /\ (pc = "returned" /\ merged) => output = OwnBytes

\* C19's case: a scan has succeeded with lines in its output while the
\* left-over scan_1, which it did not list, still holds its old bytes.
C19_Witness ==
  /\ pc = "returned" /\ merged
  /\ Len(temp_files) = 1
  /\ output \notin {NoFile, <<>>}
  /\ tempfs[1] = StaleBytes
====
